---- MODULE Spec2Model ----
(***************************************************************************)
(* A model of the numerical core of ya_glm / yaglm:                        *)
(*   - grad_at_zero and the four path-top bounds (glm_pen_max_lasso.py),   *)
(*   - the constraint projections (opt/constraint/convex.py),              *)
(*   - the Cvxpy solver backend (solver/Cvxpy.py),                         *)
(*   - predict and score of the estimators (loss/LossMixin.py).            *)
(* Real numbers are exact rationals [n, d] in lowest terms with d > 0.     *)
(* numpy arrays are tagged records [nd, v]: nd = 0 a scalar, nd = 1 a      *)
(* vector (a sequence), nd = 2 a matrix (a sequence of rows).              *)
(***************************************************************************)
EXTENDS Integers, Sequences, FiniteSets, TLC

VARIABLES
    call,             \* the arguments of the last call of the bounds module
    out,              \* its outcome: a returned value or the exception raised
    cvxpy_installed,  \* whether "import cvxpy" succeeds in this process
    heap,             \* number of cvxpy objects allocated so far (identities)
    coef_, intercept_, problem_, pen_val_, weights_, penalty_config_, is_mr_,
    ret,              \* outcome of the last Cvxpy method call
    cons,             \* the constraint object (its class and fields)
    px,               \* the argument of its last prox call
    pout,             \* the outcome of that prox call
    est,              \* the fitted estimator: its loss name and classes_
    sarg,             \* the arguments of its last predict / score call
    sout              \* the outcome of that call

boundsVars == <<call, out>>
solverVars == <<cvxpy_installed, heap, coef_, intercept_, problem_, pen_val_,
                weights_, penalty_config_, is_mr_, ret>>
proxVars == <<cons, px, pout>>
scoreVars == <<est, sarg, sout>>
vars == <<call, out, cvxpy_installed, heap, coef_, intercept_, problem_,
          pen_val_, weights_, penalty_config_, is_mr_, ret, cons, px, pout,
          est, sarg, sout>>

----------------------------------------------------------------------------
(* Bounds of the model.                                                    *)
MaxW == 1        \* numeric weights range over -MaxW..MaxW
MaxV == 1        \* entries of a prox argument range over -MaxV..MaxV
MaxRadius == 2   \* radii of the simplex and of the balls range over 1..MaxRadius
MaxPen == 2      \* penalty strengths range over 1..MaxPen
MaxObjs == 7     \* setup is called while fewer cvxpy objects than this exist

----------------------------------------------------------------------------
(* Exact rational arithmetic.                                              *)
Abs(i) == IF i < 0 THEN -i ELSE i

RECURSIVE GCD(_, _)
GCD(a, b) == IF b = 0 THEN a ELSE GCD(b, a % b)

Rat(n, d) ==
    LET s == IF d < 0 THEN -1 ELSE 1
        g == GCD(Abs(n), Abs(d))
    IN  [n |-> (s * n) \div g, d |-> (s * d) \div g]

R(i) == [n |-> i, d |-> 1]
Zero == R(0)
One == R(1)
Half == Rat(1, 2)

RAdd(a, b) == Rat(a.n * b.d + b.n * a.d, a.d * b.d)
RNeg(a) == [n |-> -a.n, d |-> a.d]
RSub(a, b) == RAdd(a, RNeg(b))
RMul(a, b) == Rat(a.n * b.n, a.d * b.d)
RDiv(a, b) == Rat(a.n * b.d, a.d * b.n)
RAbs(a) == [n |-> Abs(a.n), d |-> a.d]
RLt(a, b) == a.n * b.d < b.n * a.d
RLe(a, b) == a.n * b.d <= b.n * a.d
RSign(a) == IF a.n > 0 THEN One ELSE IF a.n < 0 THEN R(-1) ELSE Zero

\* the largest element of a non-empty finite set of rationals
RMaxOf(S) == CHOOSE m \in S : \A x \in S : RLe(x, m)
RMinOf(S) == CHOOSE m \in S : \A x \in S : RLe(m, x)

RECURSIVE RSum(_)
RSum(s) == IF s = <<>> THEN Zero ELSE RAdd(s[1], RSum(Tail(s)))

Range(s) == {s[i] : i \in DOMAIN s}

----------------------------------------------------------------------------
(* numpy arrays.                                                           *)
Scalar(r) == [nd |-> 0, v |-> r]
Vec(s) == [nd |-> 1, v |-> s]
Mat(rows) == [nd |-> 2, v |-> rows]

\* ndarray.shape
Shape(a) ==
    IF a.nd = 0 THEN <<>>
    ELSE IF a.nd = 1 THEN <<Len(a.v)>>
    ELSE <<Len(a.v), IF Len(a.v) = 0 THEN 0 ELSE Len(a.v[1])>>

\* all the entries of an array, as a sequence (ndarray.reshape(-1))
RECURSIVE Concat(_)
Concat(rows) == IF rows = <<>> THEN <<>> ELSE rows[1] \o Concat(Tail(rows))

Flat(a) == IF a.nd = 0 THEN <<a.v>> ELSE IF a.nd = 1 THEN a.v ELSE Concat(a.v)

\* f applied to every entry
Map1(f(_), a) ==
    IF a.nd = 0 THEN Scalar(f(a.v))
    ELSE IF a.nd = 1 THEN Vec([i \in DOMAIN a.v |-> f(a.v[i])])
    ELSE Mat([i \in DOMAIN a.v |-> [k \in DOMAIN a.v[i] |-> f(a.v[i][k])]])

\* y.mean() / np.mean(y): the mean of all the entries
MeanAll(a) == RDiv(RSum(Flat(a)), R(Len(Flat(a))))

\* y.mean(axis=0): a scalar for a vector, the column means for a matrix
Column(a, k) == [i \in DOMAIN a.v |-> a.v[i][k]]
ColMeans(a) ==
    [k \in 1..Shape(a)[2] |-> RDiv(RSum(Column(a, k)), R(Len(a.v)))]

\* y[:, c]
ColumnOf(a, c) == Vec(Column(a, c))

\* X.T @ a for X (n x p) and a of shape (n,) or (n, r)
XT_at(X, a) ==
    LET n == Len(X.v)
        p == Len(X.v[1])
        dot(j, col) == RSum([i \in 1..n |-> RMul(X.v[i][j], col[i])])
    IN  IF a.nd = 1
        THEN Vec([j \in 1..p |-> dot(j, a.v)])
        ELSE Mat([j \in 1..p |-> [k \in 1..Shape(a)[2] |-> dot(j, Column(a, k))]])

\* a / X.shape[0]
DivN(a, X) == LET q(r) == RDiv(r, R(Len(X.v))) IN Map1(q, a)

\* is_multi_response(y)
is_multi_response(y) == y.nd = 2 /\ Shape(y)[2] > 1

----------------------------------------------------------------------------
(* Outcomes of a call: a returned value, or the exception it raised.       *)
Ok(val) == [st |-> "ok", val |-> val]
Raise(e) == [st |-> e, val |-> Scalar(Zero)]

\* keyword arguments are sets of <<name, value>> pairs
Keys(kws) == {kv[1] : kv \in kws}
Get(kws, k) == (CHOOSE kv \in kws : kv[1] = k)[2]

----------------------------------------------------------------------------
(* Helpers of the gradient formulas.                                       *)

\* a - s for a scalar s
SubScalar(a, s) == LET f(r) == RSub(r, s) IN Map1(f, a)

\* s - a for a scalar s
ScalarSub(s, a) == LET f(r) == RSub(s, r) IN Map1(f, a)

\* y - y.mean(axis=0)
SubColMeans(y) ==
    IF y.nd = 1 THEN SubScalar(y, MeanAll(y))
    ELSE Mat([i \in DOMAIN y.v |->
                 [k \in DOMAIN y.v[i] |-> RSub(y.v[i][k], ColMeans(y)[k])]])

\* huber_grad(r, knot) of ya_glm.opt.huber_regression, entrywise: the
\* derivative of the Huber function, r clipped to [-knot, knot]
huber_grad(a, knot) ==
    LET f(r) == IF RLe(RAbs(r), knot) THEN r ELSE RMul(knot, RSign(r))
    IN  Map1(f, a)

\* tilted_L1_grad(r, quantile) of ya_glm.opt.quantile_regression, entrywise:
\* a subgradient of the tilted L1 (check) function
tilted_L1_grad(a, quantile) ==
    LET f(r) == IF r.n > 0 THEN quantile
                ELSE IF r.n < 0 THEN RSub(quantile, One) ELSE Zero
    IN  Map1(f, a)

\* a sequence of rationals in increasing order (np.sort)
RECURSIVE Insert(_, _)
Insert(x, s) ==
    IF s = <<>> THEN <<x>>
    ELSE IF RLe(x, s[1]) THEN <<x>> \o s
    ELSE <<s[1]>> \o Insert(x, Tail(s))

RECURSIVE SortAsc(_)
SortAsc(s) == IF s = <<>> THEN <<>> ELSE Insert(s[1], SortAsc(Tail(s)))

Reverse(s) == [i \in DOMAIN s |-> s[Len(s) + 1 - i]]

\* np.quantile(a, q) for 0 <= q <= 1: linear interpolation between the
\* order statistics of the flattened array
np_quantile(a, q) ==
    LET s == SortAsc(Flat(a))
        pos == RMul(q, R(Len(s) - 1))
        lo == pos.n \div pos.d
        hi == IF lo + 1 < Len(s) THEN lo + 1 ELSE Len(s) - 1
        frac == RSub(pos, R(lo))
    IN  RAdd(s[lo + 1], RMul(frac, RSub(s[hi + 1], s[lo + 1])))

----------------------------------------------------------------------------
(* The gradient of the average loss at coef = 0, one formula per loss.     *)

g0_lin_reg(X, y, fit_intercept) ==
    LET grad == IF fit_intercept THEN XT_at(X, SubScalar(y, MeanAll(y)))
                ELSE XT_at(X, y)
    IN  Ok(DivN(grad, X))

g0_lin_reg_mr(X, y, fit_intercept) ==
    LET grad == IF fit_intercept THEN XT_at(X, SubColMeans(y))
                ELSE XT_at(X, y)
    IN  Ok(DivN(grad, X))

\* the result has the shape of y: there is no X.T @ in the source
g0_huber_reg(X, y, fit_intercept, loss_kws) ==
    IF Keys(loss_kws) # {"knot"} THEN Raise("TypeError")
    ELSE LET knot == Get(loss_kws, "knot")
             grad == IF fit_intercept
                     THEN huber_grad(SubScalar(y, MeanAll(y)), knot)
                     ELSE huber_grad(y, knot)
         IN  Ok(DivN(grad, X))

g0_huber_reg_mr(X, y, fit_intercept, loss_kws) ==
    IF Keys(loss_kws) # {"knot"} THEN Raise("TypeError")
    ELSE LET knot == Get(loss_kws, "knot")
             grad == IF fit_intercept
                     THEN huber_grad(SubColMeans(y), knot)
                     ELSE huber_grad(y, knot)
         IN  Ok(DivN(grad, X))

g0_log_reg(X, y, fit_intercept) ==
    LET grad == IF fit_intercept THEN XT_at(X, ScalarSub(MeanAll(y), y))
                ELSE XT_at(X, ScalarSub(Half, y))
    IN  Ok(DivN(grad, X))

\* for a vector y: y.mean(axis=0) is a scalar, probs is (n, 1) and
\* probs - y broadcasts to (n, n); y.shape[1] raises IndexError
g0_multinomial(X, y, fit_intercept) ==
    IF y.nd = 1 /\ ~fit_intercept THEN Raise("IndexError")
    ELSE LET n == Len(X.v)
             diff ==
               IF y.nd = 1
               THEN Mat([i \in 1..n |->
                           [k \in DOMAIN y.v |-> RSub(MeanAll(y), y.v[k])]])
               ELSE LET K == Shape(y)[2]
                        cls_prob_vec ==
                          IF fit_intercept THEN ColMeans(y)
                          ELSE [k \in 1..K |-> RDiv(One, R(K))]
                    IN  Mat([i \in 1..n |->
                               [k \in 1..K |-> RSub(cls_prob_vec[k], y.v[i][k])]])
         IN  Ok(DivN(XT_at(X, diff), X))

\* np.ones(len(y)) - y broadcasts a (n,) vector against y
g0_poisson(X, y, fit_intercept, loss_kws) ==
    IF loss_kws # {} THEN Raise("TypeError")
    ELSE IF fit_intercept
    THEN Ok(DivN(XT_at(X, ScalarSub(MeanAll(y), y)), X))
    ELSE IF y.nd = 1 \/ Shape(y)[2] = Len(y.v) \/ Len(y.v) = 1
    THEN Ok(DivN(XT_at(X, ScalarSub(One, y)), X))
    ELSE IF Shape(y)[2] = 1
    THEN Ok(DivN(XT_at(X, Mat([i \in DOMAIN y.v |->
                                  [k \in DOMAIN y.v |-> RSub(One, y.v[i][1])]])), X))
    ELSE Raise("ValueError")

g0_quantile(X, y, fit_intercept, loss_kws) ==
    IF Keys(loss_kws) # {"quantile"} THEN Raise("TypeError")
    ELSE LET quantile == Get(loss_kws, "quantile")
             resid == IF fit_intercept
                      THEN SubScalar(y, np_quantile(y, quantile))
                      ELSE y
         IN  Ok(DivN(XT_at(X, tilted_L1_grad(resid, quantile)), X))

\* get_g0_multi_response: the single-response gradients of the columns of
\* y, stacked as the columns of a (n_features, n_responses) matrix
get_g0_multi_response(g0_getter, X, y, fit_intercept, loss_kws) ==
    LET gs == [j \in 1..Shape(y)[2] |->
                  IF g0_getter = "g0_poisson"
                  THEN g0_poisson(X, ColumnOf(y, j), fit_intercept, loss_kws)
                  ELSE Raise("TypeError")]
    IN  IF \E j \in DOMAIN gs : gs[j].st # "ok"
        THEN gs[CHOOSE j \in DOMAIN gs :
                    gs[j].st # "ok" /\ \A i \in 1..(j - 1) : gs[i].st = "ok"]
        ELSE Ok(Mat([f \in 1..Len(X.v[1]) |->
                       [j \in DOMAIN gs |-> gs[j].val.v[f]]]))

\* never called: grad_at_zero has no branch that reaches it
g0_poisson_mr(X, y, fit_intercept, loss_kws) ==
    get_g0_multi_response("g0_poisson", X, y, fit_intercept, loss_kws)

\* the dispatch on the name of the loss; the poisson_mr branch never
\* matches "poisson_mr", it tests for the name "g0_poisson_mr"
grad_at_zero(X, y, fit_intercept, loss_func, loss_kws) ==
    IF loss_func = "lin_reg" THEN g0_lin_reg(X, y, fit_intercept)
    ELSE IF loss_func = "lin_reg_mr" THEN g0_lin_reg_mr(X, y, fit_intercept)
    ELSE IF loss_func = "huber_reg"
    THEN g0_huber_reg(X, y, fit_intercept, loss_kws)
    ELSE IF loss_func = "huber_reg_mr"
    THEN g0_huber_reg_mr(X, y, fit_intercept, loss_kws)
    ELSE IF loss_func = "log_reg" THEN g0_log_reg(X, y, fit_intercept)
    ELSE IF loss_func = "multinomial" THEN g0_multinomial(X, y, fit_intercept)
    ELSE IF loss_func = "poisson"
    THEN g0_poisson(X, y, fit_intercept, loss_kws)
    ELSE IF loss_func = "g0_poisson_mr"
    THEN g0_poisson(X, y, fit_intercept, loss_kws)
    ELSE IF loss_func = "quantile"
    THEN g0_quantile(X, y, fit_intercept, loss_kws)
    ELSE Raise("NotImplementedError")

----------------------------------------------------------------------------
(* Penalty weights.  An entry of a weights array is None, NaN or a float;  *)
(* "tiny" stands for a float with 0 < |w| <= machine epsilon (its value is *)
(* never divided by), "num" for the rational v.  Every non-zero rational   *)
(* of the model is far larger than machine epsilon.                        *)
WNone == [k |-> "none", v |-> Zero]
WNaN == [k |-> "nan", v |-> Zero]
WTiny == [k |-> "tiny", v |-> Zero]
WNum(i) == [k |-> "num", v |-> R(i)]

\* weights=None
NoWeights == [nd |-> -1, v |-> <<>>]
IsNone(weights) == weights.nd = -1

\* abs(w) > np.finfo(float).eps
AbsGtEps(w) == w.k = "num" /\ RAbs(w.v) # Zero

\* is_nonzero_weight with the sign kept: w > eps in place of abs(w) > eps
is_nonzero_weight_signed(w) ==
    IF w.k # "none" /\ ~(w.k = "nan") /\ w.k = "num" /\ w.v.n > 0 THEN TRUE ELSE FALSE

\* an entry counts as penalized whatever its sign
is_nonzero_weight(w) ==
    IF w.k # "none" /\ ~(w.k = "nan") /\ AbsGtEps(w) THEN TRUE ELSE FALSE

get_is_pen_mask(weights) == Map1(is_nonzero_weight, weights)

\* s[mask] for a sequence s and a boolean sequence of the same length
RECURSIVE SelFrom(_, _, _)
SelFrom(s, mask, i) ==
    IF i > Len(s) THEN <<>>
    ELSE (IF mask[i] THEN <<s[i]>> ELSE <<>>) \o SelFrom(s, mask, i + 1)

Sel(s, mask) == SelFrom(s, mask, 1)

\* the values of the selected weights
WVals(ws) == [i \in DOMAIN ws |-> ws[i].v]

\* abs(grad).max() with a default of zero for an empty array
AbsMaxOrZero(a) ==
    IF Flat(a) = <<>> THEN Ok(Scalar(Zero))
    ELSE Ok(Scalar(RMaxOf({RAbs(x) : x \in Range(Flat(a))})))

\* abs(grad).max(): an empty array has no maximum
AbsMax(a) ==
    IF Flat(a) = <<>> THEN Raise("ValueError")
    ELSE Ok(Scalar(RMaxOf({RAbs(x) : x \in Range(Flat(a))})))

\* grad[penalized_mask] / weights[penalized_mask] with numpy's boolean
\* indexing and broadcasting, for a vector of weights
MaskedRatio(grad, weights) ==
    LET mask == get_is_pen_mask(weights).v
        w == WVals(Sel(weights.v, mask))
        k == Len(w)
    IN  IF weights.nd # 1 \/ Len(grad.v) # Len(weights.v)
        THEN Raise("IndexError")
        ELSE IF grad.nd = 1
        THEN LET g == Sel(grad.v, mask)
             IN  Ok(Vec([i \in 1..k |-> RDiv(g[i], w[i])]))
        ELSE LET rows == Sel(grad.v, mask)
                 b == Shape(grad)[2]
             IN  IF b = k
                 THEN Ok(Mat([i \in 1..k |-> [j \in 1..b |-> RDiv(rows[i][j], w[j])]]))
                 ELSE IF k = 1
                 THEN Ok(Mat([i \in 1..k |-> [j \in 1..b |-> RDiv(rows[i][j], w[1])]]))
                 ELSE IF b = 1
                 THEN Ok(Mat([i \in 1..k |-> [j \in 1..k |-> RDiv(rows[i][1], w[j])]]))
                 ELSE Raise("ValueError")

\* lasso_max for a y that is not multi-response
LassoMaxSingle(X, y, fit_intercept, loss_func, loss_kws, weights) ==
    LET g == grad_at_zero(X, y, fit_intercept, loss_func, loss_kws)
    IN  IF g.st # "ok" THEN g
        ELSE IF IsNone(weights) THEN AbsMax(g.val)
        ELSE LET q == MaskedRatio(g.val, weights)
             IN  IF q.st # "ok" THEN q ELSE AbsMax(q.val)

\* the first response whose bound raised, if any
FirstRaise(ms) ==
    IF \E c \in DOMAIN ms : ms[c].st # "ok"
    THEN ms[CHOOSE c \in DOMAIN ms :
                /\ ms[c].st # "ok"
                /\ \A c2 \in 1..(c - 1) : ms[c2].st = "ok"]
    ELSE Ok(Scalar(RMaxOf({ms[c].val.v : c \in DOMAIN ms})))

\* weights[:, c]
WeightsColumn(weights, c) ==
    IF IsNone(weights) THEN NoWeights ELSE ColumnOf(weights, c)

lasso_max(X, y, fit_intercept, loss_func, loss_kws, weights) ==
    IF is_multi_response(y)
    THEN IF ~IsNone(weights) /\ weights.nd # 2 THEN Raise("IndexError")
         ELSE FirstRaise([c \in 1..Shape(y)[2] |->
                  LassoMaxSingle(X, ColumnOf(y, c), fit_intercept, loss_func,
                                 loss_kws, WeightsColumn(weights, c))])
    ELSE LassoMaxSingle(X, y, fit_intercept, loss_func, loss_kws, weights)

----------------------------------------------------------------------------
(* The three bounds built on Euclidean norms.  A norm is the square root   *)
(* of a rational, so these bounds carry a real x as its signed square      *)
(* x * |x|: the map is an order isomorphism of the reals, it keeps the     *)
(* sign and the maximum, and (x / w) * |x / w| = (x * |x|) / (w * |w|).    *)
SignedSq(r) == RMul(r, RAbs(r))
WSq(w) == [k |-> w.k, v |-> SignedSq(w.v)]

SumSq(s) == RSum([i \in DOMAIN s |-> RMul(s[i], s[i])])

\* max of a sequence of reals; an empty one has no maximum
MaxOrRaise(s) ==
    IF s = <<>> THEN Raise("ValueError") ELSE Ok(Scalar(RMaxOf(Range(s))))

\* norms[penalized_mask] / weights[penalized_mask], on signed squares
NormRatio(normsSq, weights) ==
    IF weights.nd # 1 \/ Len(normsSq) # Len(weights.v) THEN Raise("IndexError")
    ELSE LET mask == get_is_pen_mask(weights).v
             w == Sel(weights.v, mask)
             g == Sel(normsSq, mask)
         IN  Ok(Vec([i \in DOMAIN w |-> RDiv(g[i], WSq(w[i]).v)]))

\* _MULTI_RESP_LOSSES of ya_glm.info
MULTI_RESP_LOSSES == {"lin_reg_mr", "huber_reg_mr", "multinomial", "poisson_mr"}

get_L1toL2_max(X, y, fit_intercept, loss_func, loss_kws, weights) ==
    IF loss_func \notin MULTI_RESP_LOSSES THEN Raise("AssertionError")
    ELSE LET g == grad_at_zero(X, y, fit_intercept, loss_func, loss_kws)
         IN  IF g.st # "ok" THEN g
             ELSE IF g.val.nd # 2 THEN Raise("AxisError")
             ELSE LET row_norms == [i \in DOMAIN g.val.v |-> SumSq(g.val.v[i])]
                  IN  IF IsNone(weights) THEN MaxOrRaise(row_norms)
                      ELSE LET q == NormRatio(row_norms, weights)
                           IN  IF q.st # "ok" THEN q ELSE MaxOrRaise(q.val.v)

\* process_weights_group_lasso of ya_glm.processing: the weights supplied,
\* or one weight per group derived from the size of the group (its square
\* root) when none are supplied; the result is on signed squares
process_weights_group_lasso(groups, weights) ==
    IF IsNone(weights)
    THEN Vec([g \in DOMAIN groups |-> [k |-> "num", v |-> R(Len(groups[g]))]])
    ELSE Map1(WSq, weights)

\* np.linalg.norm(grad[grp_idxs]) squared: the entries (vector) or the rows
\* (matrix) of the group
GroupNormSq(grad, grp_idxs) ==
    IF grad.nd = 1
    THEN SumSq([i \in DOMAIN grp_idxs |-> grad.v[grp_idxs[i]]])
    ELSE RSum([i \in DOMAIN grp_idxs |-> SumSq(grad.v[grp_idxs[i]])])

group_lasso_max(X, y, groups, fit_intercept, loss_func, loss_kws, weights) ==
    LET g == grad_at_zero(X, y, fit_intercept, loss_func, loss_kws)
    IN  IF g.st # "ok" THEN g
        ELSE IF \E gi \in DOMAIN groups : \E i \in DOMAIN groups[gi] :
                   groups[gi][i] > Len(g.val.v)
        THEN Raise("IndexError")
        ELSE LET group_norms ==
                   [gi \in DOMAIN groups |-> GroupNormSq(g.val, groups[gi])]
                 w == process_weights_group_lasso(groups, weights)
             IN  IF w.nd # 1 \/ Len(w.v) # Len(group_norms)
                 THEN Raise("IndexError")
                 ELSE LET mask == get_is_pen_mask(w).v
                          gs == Sel(group_norms, mask)
                          ws == Sel(w.v, mask)
                      IN  MaxOrRaise([i \in DOMAIN ws |-> RDiv(gs[i], ws[i].v)])

\* exact square roots of the rationals that have one
IsSquare(k) == k >= 0 /\ \E r \in 0..k : r * r = k
ISqrt(k) == CHOOSE r \in 0..k : r * r = k
RIsSquare(q) == IsSquare(q.n) /\ IsSquare(q.d)
RSqrt(q) == Rat(ISqrt(q.n), ISqrt(q.d))

\* the entries of G^T G for a matrix G with one or two columns
Gram(G, j, k) == RSum([i \in DOMAIN G.v |-> RMul(G.v[i][j], G.v[i][k])])
GramDisc(G) ==
    LET d == RSub(Gram(G, 1, 1), Gram(G, 2, 2))
    IN  RAdd(RMul(d, d), RMul(R(4), RMul(Gram(G, 1, 2), Gram(G, 1, 2))))

\* whether the leading singular value of G has a rational square
SvalExact(G) ==
    G.nd = 2 /\ Shape(G)[2] \in {1, 2} /\ (Shape(G)[2] = 2 => RIsSquare(GramDisc(G)))

\* leading_sval of ya_glm.linalg_utils, squared: the largest eigenvalue of
\* G^T G
leading_sval(G) ==
    IF Shape(G)[2] = 1 THEN Gram(G, 1, 1)
    ELSE RDiv(RAdd(RAdd(Gram(G, 1, 1), Gram(G, 2, 2)), RSqrt(GramDisc(G))), R(2))

nuclear_norm_max(X, y, fit_intercept, loss_func, loss_kws, weights) ==
    IF loss_func \notin MULTI_RESP_LOSSES THEN Raise("AssertionError")
    ELSE LET g == grad_at_zero(X, y, fit_intercept, loss_func, loss_kws)
         IN  IF g.st # "ok" THEN g
             ELSE LET sval_max == leading_sval(g.val)
                  IN  IF IsNone(weights) THEN Ok(Scalar(sval_max))
                      ELSE LET penalized_mask == get_is_pen_mask(weights)
                               ws == Sel(Flat(weights), Flat(penalized_mask))
                           IN  IF ws = <<>> THEN Raise("ValueError")
                               ELSE Ok(Scalar(RDiv(sval_max,
                                      SignedSq(RMinOf({w.v : w \in Range(ws)})))))

----------------------------------------------------------------------------
(* The inputs of the calls.                                                *)
IV(s) == [i \in DOMAIN s |-> R(s[i])]
DesignMatrices ==
    { Mat(<<IV(<<1, 0>>), IV(<<1, 1>>)>>),
      Mat(<<IV(<<1, 0>>), IV(<<0, 1>>), IV(<<1, 1>>)>>) }

NSamples(X) == Len(X.v)
NFeatures(X) == Len(X.v[1])

\* single responses are binary (labels, counts); multiple responses are
\* the indicator matrices of two classes
YVectors(n) == {Vec(s) : s \in [1..n -> {Zero, One}]}
OneHot == {IV(<<1, 0>>), IV(<<0, 1>>)}
YMatrices(n) == {Mat(rows) : rows \in [1..n -> OneHot]}

SupportedLosses ==
    {"lin_reg", "lin_reg_mr", "huber_reg", "huber_reg_mr", "log_reg",
     "multinomial", "poisson", "poisson_mr", "quantile"}
LossNames == SupportedLosses \cup {"g0_poisson_mr", "hinge"}

\* the keyword arguments a loss takes
RequiredKws(loss_func) ==
    IF loss_func \in {"huber_reg", "huber_reg_mr"} THEN {<<"knot", One>>}
    ELSE IF loss_func = "quantile" THEN {<<"quantile", Half>>}
    ELSE {}

\* a loss with its keyword arguments, or with one missing or one too many
LossCalls ==
    {<<l, RequiredKws(l)>> : l \in LossNames}
        \cup {<<"huber_reg", {}>>, <<"poisson", {<<"knot", One>>}>>}

WeightVals == {WNone, WNaN, WTiny} \cup {WNum(i) : i \in (-MaxW)..MaxW}
WeightVecs(p) == {Vec(s) : s \in [1..p -> WeightVals]}
MatWeightVals == {WNaN} \cup {WNum(i) : i \in 1..MaxW}
WeightMats(p, r) == {Mat(rows) : rows \in [1..p -> [1..r -> MatWeightVals]]}

GroupChoices == {<<<<1>>, <<2>>>>, <<<<1, 2>>>>}

NoCall ==
    [fn |-> "none", X |-> Mat(<<>>), y |-> Vec(<<>>), fit_intercept |-> FALSE,
     loss_func |-> "", loss_kws |-> {}, weights |-> NoWeights, groups |-> <<>>]

Args(fn, X, y, fi, lc, weights, groups) ==
    [fn |-> fn, X |-> X, y |-> y, fit_intercept |-> fi, loss_func |-> lc[1],
     loss_kws |-> lc[2], weights |-> weights, groups |-> groups]

----------------------------------------------------------------------------
(* The calls of the bounds module: one call per run, from a fresh process. *)
CallGradAtZero ==
    /\ call.fn = "none"
    /\ \E X \in DesignMatrices, fi \in BOOLEAN, lc \in LossCalls :
       \E y \in YVectors(NSamples(X)) \cup YMatrices(NSamples(X)) :
          /\ call' = Args("grad_at_zero", X, y, fi, lc, NoWeights, <<>>)
          /\ out' = grad_at_zero(X, y, fi, lc[1], lc[2])
    /\ UNCHANGED <<solverVars, proxVars, scoreVars>>

CallLassoMax ==
    /\ call.fn = "none"
    /\ \E X \in DesignMatrices, fi \in BOOLEAN, lc \in LossCalls :
       \E y \in YVectors(NSamples(X)) \cup YMatrices(NSamples(X)) :
       \E w \in {NoWeights} \cup
                (IF y.nd = 1 THEN WeightVecs(NFeatures(X))
                 ELSE WeightMats(NFeatures(X), Shape(y)[2])) :
          /\ call' = Args("lasso_max", X, y, fi, lc, w, <<>>)
          /\ out' = lasso_max(X, y, fi, lc[1], lc[2], w)
    /\ UNCHANGED <<solverVars, proxVars, scoreVars>>

CallL1toL2Max ==
    /\ call.fn = "none"
    /\ \E X \in DesignMatrices, fi \in BOOLEAN, lc \in LossCalls :
       \E y \in YMatrices(NSamples(X)) :
       \E w \in {NoWeights} \cup WeightVecs(NFeatures(X)) :
          /\ call' = Args("get_L1toL2_max", X, y, fi, lc, w, <<>>)
          /\ out' = get_L1toL2_max(X, y, fi, lc[1], lc[2], w)
    /\ UNCHANGED <<solverVars, proxVars, scoreVars>>

CallGroupLassoMax ==
    /\ call.fn = "none"
    /\ \E X \in DesignMatrices, fi \in BOOLEAN, lc \in LossCalls :
       \E y \in YVectors(NSamples(X)) :
       \E groups \in GroupChoices :
       \E w \in {NoWeights} \cup WeightVecs(Len(groups)) :
          /\ call' = Args("group_lasso_max", X, y, fi, lc, w, groups)
          /\ out' = group_lasso_max(X, y, groups, fi, lc[1], lc[2], w)
    /\ UNCHANGED <<solverVars, proxVars, scoreVars>>

\* the inputs are those whose leading singular value has a rational square
CallNuclearNormMax ==
    /\ call.fn = "none"
    /\ \E X \in DesignMatrices, fi \in BOOLEAN, lc \in LossCalls :
       \E y \in YMatrices(NSamples(X)) :
       \E w \in {NoWeights} \cup WeightVecs(2) :
          /\ LET g == grad_at_zero(X, y, fi, lc[1], lc[2])
             IN  g.st = "ok" => SvalExact(g.val)
          /\ call' = Args("nuclear_norm_max", X, y, fi, lc, w, <<>>)
          /\ out' = nuclear_norm_max(X, y, fi, lc[1], lc[2], w)
    /\ UNCHANGED <<solverVars, proxVars, scoreVars>>

InitBounds == call = NoCall /\ out = Raise("none")

----------------------------------------------------------------------------
(* The Cvxpy solver backend.  A cvxpy object (Variable, Parameter,         *)
(* Problem, list of constraints) is a record with the identity id it got   *)
(* when it was built; an attribute that was never assigned is Unset, and   *)
(* Python's None is PyNone.                                                *)
\* the value of an object is <<>> (None) or <<v>>
Unset == [kind |-> "unset", id |-> 0, value |-> <<>>]
PyNone == [kind |-> "None", id |-> 0, value |-> <<>>]
Obj(kind, id, value) == [kind |-> kind, id |-> id, value |-> value]

NoProblem ==
    [kind |-> "unset", id |-> 0, variables |-> {}, constraints |-> 0,
     parameters |-> {}, status |-> "None"]

\* penalty configurations: None, or a penalty with its flavor and strength
Flavors == {"convex", "non_convex", "mixed"}
Penalties ==
    {PyNone} \cup {[kind |-> "Penalty", flavor |-> f, pen_val |-> v]
                     : f \in Flavors, v \in 1..MaxPen}
NoPenalty == [kind |-> "NoPenalty", flavor |-> "convex", pen_val |-> 0]

\* get_flavor_kind of yaglm.config.penalty_utils
get_flavor_kind(penalty) ==
    IF penalty.kind = "Penalty" THEN penalty.flavor ELSE "None"

\* _is_applicable that rules out the non-convex penalties only
is_applicable_mixed_ok(installed, penalty) ==
    IF ~installed THEN FALSE
    ELSE get_flavor_kind(penalty) # "non_convex"

\* Cvxpy._is_applicable: False (with a warning) when cvxpy cannot be
\* imported, else whether the penalty is convex
is_applicable_(installed, penalty) ==
    IF ~installed THEN FALSE
    ELSE get_flavor_kind(penalty) \notin {"non_convex", "mixed"}

\* GlmSolverWithPath.is_applicable of yaglm.solver.base
is_applicable(installed, penalty) == is_applicable_(installed, penalty)

NoRet ==
    [method |-> "none", st |-> "none", penalty |-> PyNone,
     fit_intercept |-> FALSE, soln |-> {}, opt_data |-> "None", opt_info |-> {},
     value |-> <<>>]

Returned(method, st) == [NoRet EXCEPT !.method = method, !.st = st]

\* setup(X, y, loss, penalty, constraint, fit_intercept, sample_weight)
Setup(penalty, fit_intercept, mr) ==
    IF ~cvxpy_installed
    THEN \* import cvxpy as cp
         /\ ret' = [Returned("setup", "ModuleNotFoundError")
                      EXCEPT !.penalty = penalty, !.fit_intercept = fit_intercept]
         /\ UNCHANGED <<cvxpy_installed, heap, coef_, intercept_, problem_,
                        pen_val_, weights_, penalty_config_, is_mr_>>
    ELSE IF ~is_applicable(cvxpy_installed, penalty)
    THEN /\ ret' = [Returned("setup", "ValueError")
                      EXCEPT !.penalty = penalty, !.fit_intercept = fit_intercept]
         /\ UNCHANGED <<cvxpy_installed, heap, coef_, intercept_, problem_,
                        pen_val_, weights_, penalty_config_, is_mr_>>
    ELSE /\ is_mr_' = mr
         /\ coef_' = Obj("Variable", heap + 1, <<>>)
         /\ intercept_' = IF fit_intercept
                          THEN Obj("Variable", heap + 2, <<>>) ELSE PyNone
         /\ pen_val_' = IF penalty.kind = "Penalty"
                        THEN Obj("Parameter", heap + 3, <<penalty.pen_val>>)
                        ELSE PyNone
         /\ weights_' = IF penalty.kind = "Penalty"
                        THEN Obj("Parameter", heap + 4, <<>>) ELSE PyNone
         /\ problem_' =
              [kind |-> "Problem", id |-> heap + 5,
               variables |-> {heap + 1} \cup (IF fit_intercept THEN {heap + 2} ELSE {}),
               constraints |-> heap + 6,
               parameters |-> IF penalty.kind = "Penalty"
                              THEN {heap + 3, heap + 4} ELSE {},
               status |-> "None"]
         /\ penalty_config_' = IF penalty.kind # "None" THEN penalty ELSE NoPenalty
         /\ heap' = heap + 6
         /\ ret' = [Returned("setup", "ok")
                      EXCEPT !.penalty = penalty, !.fit_intercept = fit_intercept]
         /\ UNCHANGED cvxpy_installed

CallSetup ==
    /\ heap < MaxObjs
    /\ \E penalty \in Penalties, fit_intercept \in BOOLEAN, mr \in BOOLEAN :
          Setup(penalty, fit_intercept, mr)
    /\ UNCHANGED <<boundsVars, proxVars, scoreVars>>

\* update_pen_val_and_weights of yaglm.cvxpy.from_config: the values of the
\* two parameters are set from the configuration
update_pen_val_and_weights(config, pen_val, weights) ==
    /\ pen_val_' = [pen_val EXCEPT !.value = <<config.pen_val>>]
    /\ weights_' = weights

\* update_penalty that compiles the program again: new variables, a new
\* problem and a new list of constraints
UpdatePenaltyRebuild ==
    /\ penalty_config_.kind = "Penalty"
    /\ \E v \in 1..MaxPen :
          /\ penalty_config_' = [penalty_config_ EXCEPT !.pen_val = v]
          /\ pen_val_' = [pen_val_ EXCEPT !.value = <<v>>]
    /\ coef_' = Obj("Variable", heap + 1, <<>>)
    /\ intercept_' = IF intercept_.kind = "Variable"
                     THEN Obj("Variable", heap + 2, <<>>) ELSE intercept_
    /\ problem_' = [problem_ EXCEPT !.id = heap + 3, !.constraints = heap + 4,
                                    !.variables = {heap + 1, heap + 2}]
    /\ heap' = heap + 4
    /\ ret' = Returned("update_penalty", "ok")
    /\ UNCHANGED <<cvxpy_installed, weights_, is_mr_>>
    /\ UNCHANGED <<boundsVars, proxVars, scoreVars>>

\* update_penalty(**params), for a solver that was set up with a penalty
UpdatePenalty ==
    /\ \E v \in 1..MaxPen :
          IF penalty_config_.kind = "unset"
          THEN /\ ret' = Returned("update_penalty", "AttributeError")
               /\ UNCHANGED <<pen_val_, weights_, penalty_config_>>
          ELSE /\ penalty_config_.kind = "Penalty"
               /\ penalty_config_' = [penalty_config_ EXCEPT !.pen_val = v]
               /\ update_pen_val_and_weights(penalty_config_', pen_val_, weights_)
               /\ ret' = Returned("update_penalty", "ok")
    /\ UNCHANGED <<cvxpy_installed, heap, coef_, intercept_, problem_, is_mr_>>
    /\ UNCHANGED <<boundsVars, proxVars, scoreVars>>

\* solve(coef_init, intercept_init, other_init)
Solve ==
    /\ \E coef_init \in {<<>>, <<"init">>}, status \in {"optimal", "optimal_inaccurate"} :
          IF coef_.kind = "unset"
          THEN /\ ret' = Returned("solve", "AttributeError")
               /\ UNCHANGED <<coef_, intercept_, problem_>>
          ELSE IF intercept_.kind = "None"
          THEN \* self.coef_.value is assigned, self.intercept_.value raises
               /\ coef_' = [coef_ EXCEPT !.value = coef_init]
               /\ ret' = Returned("solve", "AttributeError")
               /\ UNCHANGED <<intercept_, problem_>>
          ELSE /\ coef_' = [coef_ EXCEPT !.value = <<"solution">>]
               /\ intercept_' = [intercept_ EXCEPT !.value = <<"solution">>]
               /\ problem_' = [problem_ EXCEPT !.status = status]
               /\ ret' = [Returned("solve", "ok") EXCEPT
                            !.soln = IF intercept_.kind # "None"
                                     THEN {"coef", "intercept"} ELSE {"coef"},
                            !.opt_data = "None",
                            !.opt_info = {"status", "runtime"}]
    /\ UNCHANGED <<cvxpy_installed, heap, pen_val_, weights_, penalty_config_, is_mr_>>
    /\ UNCHANGED <<boundsVars, proxVars, scoreVars>>

\* Cvxpy.is_applicable(loss, penalty, constraint), a class method: the
\* import is tried inside the call, and the answer is returned
CallIsApplicable ==
    /\ \E penalty \in Penalties \cup {NoPenalty} :
          ret' = [Returned("is_applicable", "ok")
                    EXCEPT !.penalty = penalty,
                           !.value = <<is_applicable(cvxpy_installed, penalty)>>]
    /\ UNCHANGED <<cvxpy_installed, heap, coef_, intercept_, problem_,
                   pen_val_, weights_, penalty_config_, is_mr_>>
    /\ UNCHANGED <<boundsVars, proxVars, scoreVars>>

InitSolver ==
    /\ heap = 0
    /\ coef_ = Unset /\ intercept_ = Unset /\ pen_val_ = Unset /\ weights_ = Unset
    /\ problem_ = NoProblem
    /\ penalty_config_ = [kind |-> "unset", flavor |-> "convex", pen_val |-> 0]
    /\ is_mr_ = FALSE
    /\ ret = NoRet

----------------------------------------------------------------------------
(* The constraints and their projections.                                  *)

\* Positive._prox
prox_Positive(x) == LET f(r) == IF r.n > 0 THEN r ELSE Zero IN Ok(Map1(f, x))

\* np.cumsum
RECURSIVE CumSum(_)
CumSum(s) ==
    IF s = <<>> THEN <<>>
    ELSE LET c == CumSum(SubSeq(s, 1, Len(s) - 1))
         IN  Append(c, IF c = <<>> THEN s[1] ELSE RAdd(c[Len(c)], s[Len(s)]))

\* project_simplex with the first index at which cond holds, ind[cond][0]
project_simplex_first(v, z) ==
    LET n_features == Len(v)
        u == Reverse(SortAsc(v))
        cs == CumSum(u)
        cssv == [i \in 1..n_features |-> RSub(cs[i], z)]
        cond == [i \in 1..n_features |->
                    RLt(Zero, RSub(u[i], RDiv(cssv[i], R(i))))]
        hits == {i \in 1..n_features : cond[i]}
    IN  IF hits = {} THEN Raise("IndexError")
        ELSE LET rho == CHOOSE i \in hits : \A j \in hits : i <= j
                 theta == RDiv(cssv[rho], R(rho))
             IN  Ok(Vec([i \in 1..n_features |->
                           LET d == RSub(v[i], theta)
                           IN  IF RLt(Zero, d) THEN d ELSE Zero]))

\* project_simplex(v, z): ind[cond][-1] is the last index at which cond holds
project_simplex(v, z) ==
    LET n_features == Len(v)
        u == Reverse(SortAsc(v))
        cs == CumSum(u)
        cssv == [i \in 1..n_features |-> RSub(cs[i], z)]
        cond == [i \in 1..n_features |->
                    RLt(Zero, RSub(u[i], RDiv(cssv[i], R(i))))]
        hits == {i \in 1..n_features : cond[i]}
    IN  IF hits = {} THEN Raise("IndexError")
        ELSE LET rho == CHOOSE i \in hits : \A j \in hits : j <= i
                 theta == RDiv(cssv[rho], R(rho))
             IN  Ok(Vec([i \in 1..n_features |->
                           LET d == RSub(v[i], theta)
                           IN  IF RLt(Zero, d) THEN d ELSE Zero]))

\* project_l1_ball without the signs: the projection of |v| is returned
project_l1_ball_unsigned(v, z) ==
    project_simplex([i \in DOMAIN v |-> RAbs(v[i])], z)

\* project_l1_ball(v, z) = np.sign(v) * project_simplex(np.abs(v), z)
project_l1_ball(v, z) ==
    LET p == project_simplex([i \in DOMAIN v |-> RAbs(v[i])], z)
    IN  IF p.st # "ok" THEN p
        ELSE Ok(Vec([i \in DOMAIN v |-> RMul(RSign(v[i]), p.val.v[i])]))

\* L2Ball._prox: x / max(norm(x) / mult, 1); the norm is needed only
\* outside the ball
prox_L2Ball(x, mult) ==
    IF RLe(SumSq(x.v), RMul(mult, mult)) THEN Ok(x)
    ELSE LET nrm == RDiv(RSqrt(SumSq(x.v)), mult)
             f(r) == RDiv(r, nrm)
         IN  Ok(Map1(f, x))

\* sklearn's isotonic_regression(x, increasing): the monotone sequence
\* nearest to x, by the max-min formula over the means of the blocks
BlockMean(s, j, k) == RDiv(RSum(SubSeq(s, j, k)), R(k - j + 1))
IsotonicInc(s) ==
    [i \in DOMAIN s |->
        RMaxOf({RMinOf({BlockMean(s, j, k) : k \in i..Len(s)}) : j \in 1..i})]
isotonic_regression(s, increasing) ==
    IF increasing THEN IsotonicInc(s) ELSE Reverse(IsotonicInc(Reverse(s)))

\* np.linalg.pinv of a matrix with a single row a: a^T / (a . a), or zero
pinv(A) ==
    LET a == A[1]
        aa == SumSq(a)
    IN  [j \in DOMAIN a |-> IF aa = Zero THEN Zero ELSE RDiv(a[j], aa)]

\* the constraint objects
NoPinv == <<>>
NoCons ==
    [cls |-> "none", radius |-> Zero, increasing |-> TRUE, A |-> <<>>,
     b |-> Zero, pinvA |-> NoPinv, pinvSet |-> FALSE, pinvCalls |-> 0]
Radii == {R(i) : i \in 1..MaxRadius}
AChoices == {<<IV(<<1, 1>>)>>, <<IV(<<1, 0>>)>>}
ConsChoices ==
    {[NoCons EXCEPT !.cls = "Positive"]}
      \cup {[NoCons EXCEPT !.cls = c, !.radius = r]
              : c \in {"Simplex", "L1Ball", "L2Ball"}, r \in Radii}
      \cup {[NoCons EXCEPT !.cls = "Isotonic", !.increasing = inc] : inc \in BOOLEAN}
      \cup {[NoCons EXCEPT !.cls = "LinearEquality", !.A = A, !.b = One]
              : A \in AChoices}

\* a pinvA property that calls np.linalg.pinv at every request
AfterPinvARecompute(c) ==
    [c EXCEPT !.pinvA = pinv(c.A), !.pinvSet = TRUE, !.pinvCalls = @ + 1]

\* LinearEquality.pinvA: computed on the first request, then kept;
\* pinvCalls counts the calls of np.linalg.pinv
pinvA(c) == IF ~c.pinvSet THEN pinv(c.A) ELSE c.pinvA
AfterPinvA(c) ==
    IF ~c.pinvSet
    THEN [c EXCEPT !.pinvA = pinv(c.A), !.pinvSet = TRUE, !.pinvCalls = @ + 1]
    ELSE c

\* LinearEquality._prox: x - pinvA @ (A @ x - b)
prox_LinearEquality(c, x) ==
    IF Len(x.v) # Len(c.A[1]) THEN Raise("ValueError")
    ELSE LET residue == RSub(RSum([j \in DOMAIN x.v |-> RMul(c.A[1][j], x.v[j])]), c.b)
         IN  Ok(Vec([j \in DOMAIN x.v |-> RSub(x.v[j], RMul(pinvA(c)[j], residue))]))

\* Func.prox of a constraint c at x: the step is ignored
Prox(c, x) ==
    IF c.cls = "Positive" THEN prox_Positive(x)
    ELSE IF c.cls = "LinearEquality" THEN prox_LinearEquality(c, x)
    ELSE IF c.cls = "Simplex" THEN project_simplex(x.v, c.radius)
    ELSE IF c.cls = "L1Ball" THEN project_l1_ball(x.v, c.radius)
    ELSE IF c.cls = "L2Ball" THEN prox_L2Ball(x, c.radius)
    ELSE Ok(Vec(isotonic_regression(x.v, c.increasing)))

ProxArgs == UNION {{Vec(s) : s \in [1..n -> {R(i) : i \in (-MaxV)..MaxV}]} : n \in {2, 3}}

\* the norm of an L2Ball's argument is rational whenever it is needed
L2Exact(c, x) ==
    c.cls = "L2Ball" =>
        (RLe(SumSq(x.v), RMul(c.radius, c.radius)) \/ RIsSquare(SumSq(x.v)))

\* the constructor of a constraint
NewConstraint ==
    /\ cons.cls = "none"
    /\ cons' \in ConsChoices
    /\ UNCHANGED <<px, pout>>
    /\ UNCHANGED <<boundsVars, solverVars, scoreVars>>

CallProx ==
    /\ cons.cls # "none"
    /\ \E x \in ProxArgs :
          /\ L2Exact(cons, x)
          /\ px' = x
          /\ pout' = Prox(cons, x)
          /\ cons' = IF cons.cls = "LinearEquality" /\ Len(x.v) = Len(cons.A[1])
                     THEN AfterPinvA(cons) ELSE cons
    /\ UNCHANGED <<boundsVars, solverVars, scoreVars>>

\* self.A is assigned a new matrix by the owner of a LinearEquality
SetA ==
    /\ cons.cls = "LinearEquality"
    /\ \E A \in AChoices : A # cons.A /\ cons' = [cons EXCEPT !.A = A]
    /\ UNCHANGED <<px, pout>>
    /\ UNCHANGED <<boundsVars, solverVars, scoreVars>>

InitProx == cons = NoCons /\ px = Vec(<<>>) /\ pout = Raise("none")

----------------------------------------------------------------------------
(* LossMixin: predict and score of a fitted estimator.  The decision       *)
(* function belongs to another mixin, so its value z on the X of a call is *)
(* an input.  The metrics of sklearn and of ya_glm.metrics are kept as     *)
(* applications [metric, y_true, y_pred]; np.exp(r) is the term [exp: r].  *)

\* the names of the loss configurations (_process_y, predict, score)
LossConfigNames == {"lin_reg", "huber", "quantile", "poisson", "log_reg", "multinomial"}

\* the labels of a fitted classifier
Classes == <<Zero, One>>

NoEstimator == [name |-> "none", classes_ |-> <<>>]
NoScoreArgs == [z |-> Vec(<<>>), y |-> Vec(<<>>)]
NoScoreOut == [method |-> "none", metric |-> "none", y_true |-> Vec(<<>>),
               y_pred |-> Vec(<<>>)]

\* scores.argmax(axis=1): the first index of the largest entry of each row
ArgMax(row) ==
    CHOOSE k \in DOMAIN row :
        /\ \A j \in DOMAIN row : RLe(row[j], row[k])
        /\ \A j \in 1..(k - 1) : RLt(row[j], row[k])

\* predict(X), with z = decision_function(X)
predict(e, z) ==
    IF e.name \in {"lin_reg", "huber", "quantile"} THEN z
    ELSE IF e.name = "poisson"
    THEN LET exp(r) == [exp |-> r] IN Map1(exp, z)
    ELSE IF e.name \in {"log_reg", "multinomial"}
    THEN IF z.nd = 1
         THEN Vec([i \in DOMAIN z.v |->
                     e.classes_[IF RLt(Zero, z.v[i]) THEN 2 ELSE 1]])
         ELSE Vec([i \in DOMAIN z.v |-> e.classes_[ArgMax(z.v[i])]])
    ELSE Vec(<<>>)

\* the metric that score applies to (y, predict(X)) for a loss name
ScoreMetric(name) ==
    IF name \in {"lin_reg", "huber", "quantile", "poisson"} THEN "r2_score"
    ELSE IF name = "poisson" THEN "poisson_dsq_score"
    ELSE IF name \in {"log_reg", "multinomial"} THEN "accuracy_score"
    ELSE "None"

\* score(X, y, sample_weight=None)
score(e, z, y) ==
    [method |-> "score", metric |-> ScoreMetric(e.name), y_true |-> y,
     y_pred |-> predict(e, z)]

\* the values of the decision function: a vector, or a matrix with one
\* column per class or response
DecisionValues ==
    {Vec(s) : s \in [1..2 -> {R(i) : i \in (-MaxV)..MaxV}]}
      \cup {Mat(rows) : rows \in [1..2 -> [1..2 -> {Zero, One}]]}

\* an estimator is fitted with one of the losses
FitEstimator ==
    /\ est.name = "none"
    /\ \E name \in LossConfigNames :
          est' = [name |-> name,
                  classes_ |-> IF name \in {"log_reg", "multinomial"}
                               THEN Classes ELSE <<>>]
    /\ UNCHANGED <<sarg, sout>>
    /\ UNCHANGED <<boundsVars, solverVars, proxVars>>

CallPredict ==
    /\ est.name # "none"
    /\ \E z \in DecisionValues :
          /\ sarg' = [z |-> z, y |-> Vec(<<>>)]
          /\ sout' = [NoScoreOut EXCEPT !.method = "predict",
                                        !.y_pred = predict(est, z)]
    /\ UNCHANGED est
    /\ UNCHANGED <<boundsVars, solverVars, proxVars>>

CallScore ==
    /\ est.name # "none"
    /\ \E z \in DecisionValues, y \in YVectors(2) :
          /\ sarg' = [z |-> z, y |-> y]
          /\ sout' = score(est, z, y)
    /\ UNCHANGED est
    /\ UNCHANGED <<boundsVars, solverVars, proxVars>>

InitScore == est = NoEstimator /\ sarg = NoScoreArgs /\ sout = NoScoreOut

----------------------------------------------------------------------------
(* The specifications: the bounds module, the solver, the constraints,     *)
(* the estimators.                                                         *)
Init == InitBounds /\ InitSolver /\ InitProx /\ InitScore /\ cvxpy_installed \in BOOLEAN

\* the bounds and the constraints do not import cvxpy
InitNoSolver ==
    InitBounds /\ InitSolver /\ InitProx /\ InitScore /\ cvxpy_installed = FALSE

NextBounds ==
    \/ CallGradAtZero
    \/ CallLassoMax
    \/ CallL1toL2Max
    \/ CallGroupLassoMax
    \/ CallNuclearNormMax

NextSolver == CallSetup \/ UpdatePenalty \/ Solve \/ CallIsApplicable

NextProx == NewConstraint \/ CallProx \/ SetA

NextScore == FitEstimator \/ CallPredict \/ CallScore

Next == NextBounds \/ NextSolver \/ NextProx \/ NextScore

SpecBounds == InitNoSolver /\ [][NextBounds]_vars
SpecSolver == Init /\ [][NextSolver]_vars
SpecProx == InitNoSolver /\ [][NextProx]_vars
SpecScore == InitNoSolver /\ [][NextScore]_vars
Spec == Init /\ [][Next]_vars

----------------------------------------------------------------------------
(* Properties of the bounds module, checked under SpecBounds.              *)

\* the penalized coordinates of a vector of weights, as the specification
\* defines them: non-null, non-NaN and of magnitude above machine epsilon
PenalizedIdx(w) ==
    {j \in DOMAIN w.v : w.v[j].k \notin {"none", "nan", "tiny"} /\ w.v[j].v # Zero}

\* no entry of a weights array is penalized
NonePenalized(w) ==
    \A e \in Range(Flat(w)) : e.k \in {"none", "nan", "tiny"} \/ e.v = Zero

\* the gradient the last call computed from its arguments
CallGrad ==
    grad_at_zero(call.X, call.y, call.fit_intercept, call.loss_func, call.loss_kws)

\* a call of lasso_max with a single response and a vector of weights
\* for which grad_at_zero returns a vector
SingleLassoCall ==
    /\ call.fn = "lasso_max"
    /\ call.y.nd = 1
    /\ call.weights.nd = 1
    /\ CallGrad.st = "ok"
    /\ CallGrad.val.nd = 1

\* max over the penalized j of |g_j| / d(w_j)
RatioMax(g, w, d(_)) ==
    RMaxOf({RDiv(RAbs(g.v[j]), d(w.v[j].v)) : j \in PenalizedIdx(w)})

Ident(r) == r

\* the examples of the specification, on lines 35-41 of lasso_max
LassoOfGrad(g, w) == AbsMax(MaskedRatio(Vec(IV(g)), Vec([i \in DOMAIN w |-> WNum(w[i])])).val)
LassoExamples ==
    /\ LassoOfGrad(<<5, 100, 3>>, <<1, 0, 1>>) = Ok(Scalar(R(5)))
    /\ LassoOfGrad(<<2, -4>>, <<1, 1>>) = Ok(Scalar(R(4)))
    /\ LassoOfGrad(<<2, -4>>, <<1, 2>>) = Ok(Scalar(R(2)))

\* C1, as stated: for a single response and a vector of weights, lasso_max
\* returns the maximum over the penalized coordinates j of |g_j| / w_j.
C1_LassoMaxSignedRatio ==
    (SingleLassoCall /\ Len(CallGrad.val.v) = Len(call.weights.v)
        /\ PenalizedIdx(call.weights) # {})
    => out = Ok(Scalar(RatioMax(CallGrad.val, call.weights, Ident)))

\* C1, amended: for a single response and a vector of weights, when
\* grad_at_zero returns a vector g with one entry per weight and some
\* coordinate is penalized, lasso_max returns the maximum over the penalized
\* coordinates j of |g_j| / |w_j|; unpenalized coordinates never influence
\* the result.
C1_LassoMaxAbsRatio ==
    /\ LassoExamples
    /\ (SingleLassoCall /\ Len(CallGrad.val.v) = Len(call.weights.v)
           /\ PenalizedIdx(call.weights) # {})
       => out = Ok(Scalar(RatioMax(CallGrad.val, call.weights, RAbs)))

\* a call in which a negative penalized weight divides the largest ratio
\* and an unpenalized coordinate holds a non-zero gradient
C1_Witness ==
    /\ SingleLassoCall
    /\ out.st = "ok"
    /\ \E j \in PenalizedIdx(call.weights) :
          /\ call.weights.v[j].v.n < 0
          /\ out.val.v = RDiv(RAbs(CallGrad.val.v[j]), RAbs(call.weights.v[j].v))
          /\ out.val.v # Zero
    /\ \E i \in DOMAIN call.weights.v :
          i \notin PenalizedIdx(call.weights) /\ CallGrad.val.v[i] # Zero

BoundFns == {"lasso_max", "get_L1toL2_max", "group_lasso_max", "nuclear_norm_max"}

\* C2: each of the four bounds, called with weights none of which is
\* penalized, ends in an error; it returns no scalar.
C2_NoPenalizedRaises ==
    (call.fn \in BoundFns /\ ~IsNone(call.weights) /\ NonePenalized(call.weights))
    => out.st \notin {"ok", "none"}

\* the gradient was computed and the empty maximum is what raised
C2_Witness ==
    /\ call.fn = "nuclear_norm_max"
    /\ ~IsNone(call.weights) /\ NonePenalized(call.weights)
    /\ CallGrad.st = "ok"
    /\ out.st = "ValueError"

\* the gradient formula each supported name stands for
LossFormula(X, y, fit_intercept, loss_func, loss_kws) ==
    IF loss_func = "poisson_mr" THEN g0_poisson_mr(X, y, fit_intercept, loss_kws)
    ELSE IF loss_func = "lin_reg" THEN g0_lin_reg(X, y, fit_intercept)
    ELSE IF loss_func = "lin_reg_mr" THEN g0_lin_reg_mr(X, y, fit_intercept)
    ELSE IF loss_func = "huber_reg" THEN g0_huber_reg(X, y, fit_intercept, loss_kws)
    ELSE IF loss_func = "huber_reg_mr" THEN g0_huber_reg_mr(X, y, fit_intercept, loss_kws)
    ELSE IF loss_func = "log_reg" THEN g0_log_reg(X, y, fit_intercept)
    ELSE IF loss_func = "multinomial" THEN g0_multinomial(X, y, fit_intercept)
    ELSE IF loss_func = "poisson" THEN g0_poisson(X, y, fit_intercept, loss_kws)
    ELSE g0_quantile(X, y, fit_intercept, loss_kws)

\* C3: grad_at_zero raises the unsupported-loss error for every name outside
\* the enumerated set, and for every name inside it dispatches to the
\* formula of that loss and does not raise that error.
C3_DispatchOnLossName ==
    call.fn = "grad_at_zero" =>
        IF call.loss_func \in SupportedLosses
        THEN /\ out.st # "NotImplementedError"
             /\ out = LossFormula(call.X, call.y, call.fit_intercept,
                                  call.loss_func, call.loss_kws)
        ELSE out.st = "NotImplementedError"

\* a loss is multi-response when its name says so
IsMultiResponseLoss(loss_func) == loss_func \in MULTI_RESP_LOSSES

\* C4: for every supported loss, grad_at_zero returns an array shaped like
\* the coefficient: (n_features,) for a single response, (n_features,
\* n_responses) for a multi-response loss.
C4_GradShapedLikeCoef ==
    (/\ call.fn = "grad_at_zero"
     /\ call.loss_func \in SupportedLosses \ {"poisson_mr"}
     /\ call.loss_kws = RequiredKws(call.loss_func)
     /\ (call.y.nd = 2 <=> IsMultiResponseLoss(call.loss_func)))
    => /\ out.st = "ok"
       /\ Shape(out.val) =
            IF call.y.nd = 1 THEN <<NFeatures(call.X)>>
            ELSE <<NFeatures(call.X), Shape(call.y)[2]>>

\* C9: each of the four bounds returns a nonnegative scalar whenever it
\* returns, whatever the signs of the penalized weights.
C9_BoundsNonnegative ==
    (call.fn \in BoundFns /\ out.st = "ok") => RLe(Zero, out.val.v)

----------------------------------------------------------------------------
(* Properties of the Cvxpy solver, checked under SpecSolver.               *)

\* C5: whenever is_applicable is false, because of the flavor of the
\* penalty or because cvxpy is absent, setup ends with the not-applicable
\* error (the ValueError of setup).
C5_SetupRaisesNotApplicable ==
    (ret.method = "setup" /\ ~is_applicable(cvxpy_installed, ret.penalty))
    => ret.st = "ValueError"

\* C6: after a successful setup with any fit_intercept, solve returns
\* (solution, auxiliary_state, info): the solution holds the coefficients,
\* and an intercept exactly when one was fitted; the info holds 'runtime'
\* and 'status'.
C6_SolveReturnsTriple ==
    (ret.method = "solve" /\ coef_.kind = "Variable")
    => /\ ret.st = "ok"
       /\ "coef" \in ret.soln
       /\ ("intercept" \in ret.soln <=> intercept_.kind = "Variable")
       /\ {"runtime", "status"} \subseteq ret.opt_info

\* C7: a step of update_penalty or of solve keeps the variables coef_ and
\* intercept_, the problem and its list of constraints the objects setup
\* built, and keeps the two parameters the same objects; update_penalty
\* changes nothing but the values of the parameters and the stored
\* penalty configuration.
C7_NoRebuildAfterSetup ==
    [][ret'.method \in {"update_penalty", "solve"} =>
          /\ coef_'.id = coef_.id /\ coef_'.kind = coef_.kind
          /\ intercept_'.id = intercept_.id /\ intercept_'.kind = intercept_.kind
          /\ problem_'.id = problem_.id /\ problem_'.kind = problem_.kind
          /\ problem_'.variables = problem_.variables
          /\ problem_'.constraints = problem_.constraints
          /\ problem_'.parameters = problem_.parameters
          /\ pen_val_'.id = pen_val_.id /\ weights_'.id = weights_.id
          /\ heap' = heap
          /\ ret'.method = "update_penalty" =>
                (coef_' = coef_ /\ intercept_' = intercept_ /\ problem_' = problem_)
       ]_vars

\* the penalty of a solved problem was updated to a new strength
C7_Witness ==
    /\ ret.method = "update_penalty" /\ ret.st = "ok"
    /\ coef_.value = <<"solution">>
    /\ problem_.status = "optimal"
    /\ pen_val_.value = <<penalty_config_.pen_val>>
    /\ ret.penalty = PyNone

----------------------------------------------------------------------------
(* Properties of the constraints, checked under SpecProx.                  *)

\* the feasible set of a constraint
Feasible(c, x) ==
    IF c.cls = "Positive" THEN \A i \in DOMAIN x.v : RLe(Zero, x.v[i])
    ELSE IF c.cls = "Simplex"
    THEN (\A i \in DOMAIN x.v : RLe(Zero, x.v[i])) /\ RSum(x.v) = c.radius
    ELSE IF c.cls = "L1Ball"
    THEN RLe(RSum([i \in DOMAIN x.v |-> RAbs(x.v[i])]), c.radius)
    ELSE IF c.cls = "L2Ball" THEN RLe(SumSq(x.v), RMul(c.radius, c.radius))
    ELSE IF c.cls = "Isotonic"
    THEN \A i \in 1..(Len(x.v) - 1) :
            IF c.increasing THEN RLe(x.v[i], x.v[i + 1]) ELSE RLe(x.v[i + 1], x.v[i])
    ELSE Len(x.v) = Len(c.A[1])
         /\ RSum([j \in DOMAIN x.v |-> RMul(c.A[1][j], x.v[j])]) = c.b

\* the pseudo-inverse a LinearEquality holds is that of its matrix
PinvFresh(c) == c.cls = "LinearEquality" => (~c.pinvSet \/ c.pinvA = pinv(c.A))

\* a step that is a call of prox: the constraint keeps its class and matrix
ProxStep ==
    /\ cons.cls # "none" /\ cons'.cls = cons.cls /\ cons'.A = cons.A
    /\ <<cons', px', pout'>> # <<cons, px, pout>>

\* C8: the prox of every constraint returns a feasible argument unchanged,
\* in particular an argument inside an L1Ball, and prox(prox(x)) = prox(x).
C8_ProxFixesFeasible ==
    [][(ProxStep /\ pout'.st = "ok" /\ PinvFresh(cons))
         => /\ Feasible(cons, px') => pout'.val = px'
            /\ Prox(cons', pout'.val) = pout'
      ]_vars

\* C10: for a non-empty v and a radius z > 0 every entry of
\* project_simplex(v, z) is nonnegative, the entries sum to z, and a v on
\* the simplex of radius z is returned unchanged.
C10_SimplexProjection ==
    (cons.cls = "Simplex" /\ pout.st # "none")
    => /\ pout.st = "ok"
       /\ pout = project_simplex(px.v, cons.radius)
       /\ \A i \in DOMAIN pout.val.v : RLe(Zero, pout.val.v[i])
       /\ RSum(pout.val.v) = cons.radius
       /\ Len(pout.val.v) = Len(px.v)
       /\ Feasible(cons, px) => pout.val = px

\* a point off the simplex was moved onto it: a non-zero entry is cut to
\* zero and another is shifted by the threshold
C10_Witness ==
    /\ cons.cls = "Simplex" /\ pout.st = "ok"
    /\ ~Feasible(cons, px)
    /\ Len(px.v) = 3
    /\ \E i \in DOMAIN px.v : px.v[i] # Zero /\ pout.val.v[i] = Zero
    /\ \E i \in DOMAIN px.v : pout.val.v[i] # Zero /\ pout.val.v[i] # px.v[i]

\* the L1 norm of a vector
L1Norm(s) == RSum([i \in DOMAIN s |-> RAbs(s[i])])

\* C11: for every v and every radius z > 0 the output of project_l1_ball(v, z)
\* has an L1 norm of at most z, and each of its coordinates is zero or has
\* the sign of the same coordinate of v.
C11_L1BallNormAndSigns ==
    (cons.cls = "L1Ball" /\ pout.st # "none")
    => /\ pout.st = "ok"
       /\ pout = project_l1_ball(px.v, cons.radius)
       /\ Len(pout.val.v) = Len(px.v)
       /\ RLe(L1Norm(pout.val.v), cons.radius)
       /\ \A i \in DOMAIN px.v :
             pout.val.v[i] = Zero \/ RSign(pout.val.v[i]) = RSign(px.v[i])

\* a point outside the ball with a negative entry that stays negative, a
\* non-zero entry that is cut to zero, and an output on the sphere
C11_Witness ==
    /\ cons.cls = "L1Ball" /\ pout.st = "ok"
    /\ RLt(cons.radius, L1Norm(px.v))
    /\ L1Norm(pout.val.v) = cons.radius
    /\ \E i \in DOMAIN px.v : RLt(px.v[i], Zero) /\ RLt(pout.val.v[i], Zero)
    /\ \E i \in DOMAIN px.v : pout.val.v[i] # px.v[i]

----------------------------------------------------------------------------
(* Properties of is_applicable, checked under SpecSolver.                  *)

\* the structural flavor of the penalty handed to the last call, or "None"
PenaltyFlavor(penalty) ==
    IF penalty.kind = "Penalty" THEN penalty.flavor ELSE "None"

\* C12: with cvxpy installed is_applicable returns false for every penalty
\* of flavor non_convex or mixed and true for every other penalty; without
\* cvxpy it returns false for every penalty and raises nothing.
C12_IsApplicable ==
    ret.method = "is_applicable"
    => /\ ret.st = "ok"
       /\ ret.value = <<cvxpy_installed
                          /\ PenaltyFlavor(ret.penalty) \notin {"non_convex", "mixed"}>>

\* cvxpy is installed and a penalty of mixed flavor was turned down
C12_Witness ==
    /\ ret.method = "is_applicable" /\ ret.st = "ok"
    /\ cvxpy_installed
    /\ PenaltyFlavor(ret.penalty) = "mixed"
    /\ ret.value = <<FALSE>>

----------------------------------------------------------------------------
(* Properties of LossMixin.score, checked under SpecScore.                 *)

\* the default score of a loss, as the docstring of score gives it
DefaultScore(name) ==
    IF name \in {"lin_reg", "huber", "quantile"} THEN "r2_score"
    ELSE IF name \in {"log_reg", "multinomial"} THEN "accuracy_score"
    ELSE "poisson_dsq_score"

\* C13: score applies the default score of the estimator's loss to the
\* true values and the predictions: r2_score for lin_reg, huber and
\* quantile, accuracy for log_reg and multinomial, the Poisson D-squared
\* score for poisson.
C13_ScoreUsesDefaultMetric ==
    sout.method = "score"
    => /\ sout.metric = DefaultScore(est.name)
       /\ sout.y_true = sarg.y
       /\ sout.y_pred = predict(est, sarg.z)

----------------------------------------------------------------------------
(* The cached pseudo-inverse of a LinearEquality, checked under SpecProx.  *)

\* x - P @ (A @ x - b) for a one-row A and a pseudo-inverse P
ProjectWith(P, A, b, x) ==
    LET residue == RSub(RSum([j \in DOMAIN x.v |-> RMul(A[1][j], x.v[j])]), b)
    IN  Ok(Vec([j \in DOMAIN x.v |-> RSub(x.v[j], RMul(P[j], residue))]))

\* C14: for one LinearEquality the pseudo-inverse of A is computed exactly
\* once, by the first prox call that needs it: _pinvA is None until then,
\* and from then on every prox call uses the cached value and computes
\* nothing, also after A was replaced.
C14_PinvComputedOnce ==
    [][(cons.cls = "LinearEquality" /\ cons'.cls = "LinearEquality")
         => /\ ~cons.pinvSet => (cons.pinvA = NoPinv /\ cons.pinvCalls = 0)
            /\ (~cons.pinvSet /\ cons'.pinvSet)
                 => /\ ProxStep /\ pout'.st = "ok"
                    /\ cons'.pinvA = pinv(cons.A)
                    /\ cons'.pinvCalls = 1
            /\ (ProxStep /\ pout'.st = "ok") => cons'.pinvSet
            /\ cons.pinvSet
                 => /\ cons'.pinvSet
                    /\ cons'.pinvA = cons.pinvA
                    /\ cons'.pinvCalls = 1
                    /\ (ProxStep /\ pout'.st = "ok")
                         => pout' = ProjectWith(cons.pinvA, cons.A, cons.b, px')
      ]_vars

\* A was replaced after the first prox call, and a later prox call used the
\* pseudo-inverse of the old A: its result misses the constraint
C14_Witness ==
    /\ cons.cls = "LinearEquality" /\ cons.pinvSet /\ cons.pinvCalls = 1
    /\ cons.pinvA # pinv(cons.A)
    /\ pout = ProjectWith(cons.pinvA, cons.A, cons.b, px)
    /\ ~Feasible(cons, pout.val)

----------------------------------------------------------------------------
(* lasso_max with several responses, checked under SpecBounds.             *)

\* the gradient of response c of the last call
ColGrad(c) ==
    grad_at_zero(call.X, ColumnOf(call.y, c), call.fit_intercept,
                 call.loss_func, call.loss_kws)

\* the penalized entries (j, c) of a matrix of weights
PenalizedEntries(w) ==
    {jc \in (DOMAIN w.v) \X (1..Shape(w)[2]) :
        w.v[jc[1]][jc[2]].k \notin {"none", "nan", "tiny"} /\ w.v[jc[1]][jc[2]].v # Zero}

\* a call of lasso_max with several responses and a matrix of weights,
\* the gradient of every response being a vector with one entry per row
\* of the weights
MultiLassoCall ==
    /\ call.fn = "lasso_max"
    /\ call.y.nd = 2
    /\ call.weights.nd = 2
    /\ \A c \in 1..Shape(call.y)[2] :
          /\ ColGrad(c).st = "ok"
          /\ ColGrad(c).val.nd = 1
          /\ Len(ColGrad(c).val.v) = Len(call.weights.v)

\* C15: with several responses and a matrix of weights of which at least
\* one entry is penalized, lasso_max returns the maximum of |g_jc| / w_jc
\* over the penalized entries (j, c), also when a response has no penalized
\* entry.
C15_MultiResponseLassoMax ==
    (MultiLassoCall /\ PenalizedEntries(call.weights) # {})
    => out = Ok(Scalar(RMaxOf({RDiv(RAbs(ColGrad(jc[2]).val.v[jc[1]]),
                                    call.weights.v[jc[1]][jc[2]].v)
                                 : jc \in PenalizedEntries(call.weights)})))
====
